---- MODULE Spec2Model ----
(***************************************************************************)
(* A model of tiny's message-area Line (src/tui/msg_area/line.rs): a       *)
(* character buffer with inline style directives, the count of visible     *)
(* characters, the split (whitespace) offsets, the wrapped-height          *)
(* computation and the renderer that writes cells of the terminal grid.    *)
(*                                                                         *)
(* Characters are their code points.  A Line is the record                 *)
(* [str, len_chars, splits]; the operations are operators on it, computed  *)
(* the way the Rust code computes them, and the actions apply them.        *)
(***************************************************************************)
EXTENDS Integers, Sequences, FiniteSets, TLC

VARIABLES str, len_chars, splits, log, ret, scenario

vars == <<str, len_chars, splits, log, ret, scenario>>

----------------------------------------------------------------------------
(* Bounds of the model.                                                    *)

\* characters of one Line, when every kind of character may occur
MaxInput == 3
\* the same, for directive-free text
MaxPlain == 6
\* the same, for colour directives, digits and spaces
MaxDirective == 7
\* the same, for two-digit colour directives with different codes
MaxColor == 8
\* characters handed to one Line in total, and the calls that hand them,
\* where the history of the calls is kept
MaxStream == 6
MaxCalls == 2
\* first_line asked of draw_from: 0 .. MaxFirstLine
MaxFirstLine == 1

----------------------------------------------------------------------------
(* Characters.                                                             *)

\* The markers of tui::style, a module that is not among the sources: the
\* IRC control codes for colour (0x03), bold (0x02) and reset (0x0F), and
\* 0x00 for the native palette.
TERMBOX_COLOR_PREFIX == 0
BOLD_PREFIX == 2
COLOR_PREFIX == 3
RESET_PREFIX == 15
\* termbox_sys::TB_BOLD
TB_BOLD == 256

\* ',' and '0'
COMMA == 44
DIGIT0 == 48

\* char::is_whitespace: the Unicode White_Space code points
is_whitespace(ch) ==
    \/ ch \in 9..13
    \/ ch \in {32, 133, 160, 5760, 8232, 8233, 8239, 8287, 12288}
    \/ ch \in 8192..8202

U16 == 65536

\* a | b on unsigned integers
RECURSIVE BitOr(_, _)
BitOr(a, b) ==
    IF a = 0 THEN b
    ELSE IF b = 0 THEN a
    ELSE (IF a % 2 = 1 \/ b % 2 = 1 THEN 1 ELSE 0) + 2 * BitOr(a \div 2, b \div 2)

\* (ch as u32) - ('0' as u32) overflows below '0'
to_dec_overflows(ch) == ch < DIGIT0

\* to_dec(ch) as u16, with the subtraction wrapping: the low 8 bits as i8,
\* sign-extended to u16
to_dec(ch) ==
    LET low8 == (ch - DIGIT0) % 256
        i8 == IF low8 >= 128 THEN low8 - 256 ELSE low8
    IN  i8 % U16

\* fg_1 * 10 + fg_2 in u16 arithmetic overflows
code_overflows(c1, c2) ==
    \/ to_dec_overflows(c1)
    \/ to_dec_overflows(c2)
    \/ to_dec(c1) * 10 >= U16
    \/ ((to_dec(c1) * 10) % U16) + to_dec(c2) >= U16

\* How reading the two digits s[k], s[k + 1] of a code ends, in the order of
\* the code: unwrap, to_dec, unwrap, to_dec, then the u16 arithmetic.
read_code(s, k, checked) ==
    IF k > Len(s) THEN "unwrap"
    ELSE IF checked /\ to_dec_overflows(s[k]) THEN "overflow"
    ELSE IF k + 1 > Len(s) THEN "unwrap"
    ELSE IF checked /\ code_overflows(s[k], s[k + 1]) THEN "overflow"
    ELSE "ok"

\* fg_1 * 10 + fg_2, wrapping
code_of(c1, c2) == (to_dec(c1) * 10 + to_dec(c2)) % U16

irc_color_to_termbox(irc_color) ==
    CASE irc_color = 0 -> 15
      [] irc_color = 1 -> 0
      [] irc_color = 2 -> 17
      [] irc_color = 3 -> 2
      [] irc_color = 4 -> 9
      [] irc_color = 5 -> 88
      [] irc_color = 6 -> 5
      [] irc_color = 7 -> 130
      [] irc_color = 8 -> 11
      [] irc_color = 9 -> 10
      [] irc_color = 10 -> 6
      [] irc_color = 11 -> 14
      [] irc_color = 12 -> 12
      [] irc_color = 13 -> 13
      [] irc_color = 14 -> 8
      [] irc_color = 15 -> 7
      [] OTHER -> irc_color

----------------------------------------------------------------------------
(* Line::new, Line::add_text, Line::add_char.                              *)

new == [str |-> <<>>, len_chars |-> 0, splits |-> <<>>]

\* self.str.push(ch) for each ch of cs
push(L, cs) == [L EXCEPT !.str = @ \o cs]

\* the visible-character branch of add_text, and add_char's bookkeeping
push_visible(L, ch) ==
    [str |-> Append(L.str, ch),
     len_chars |-> L.len_chars + 1,
     splits |-> IF is_whitespace(ch) THEN Append(L.splits, L.len_chars)
                ELSE L.splits]

\* char > '\x07'
is_kept(ch) == ch > 7

\* The loop of add_text with the iterator at s[i] (1-based).  The result is
\* the Line as the call leaves it and how the call ended: "ok" (returned), or
\* "panic" (an unwrap of iter.next() on the exhausted iterator).
RECURSIVE add_text_from(_, _, _)
add_text_from(L, s, i) ==
    LET n == Len(s)
        panic(L1) == [line |-> L1, outcome |-> "panic"]
        \* lines 65-85, for the character ch with the iterator at s[j]
        rest(L1, ch, j) ==
            IF ch = TERMBOX_COLOR_PREFIX THEN
                IF j > n THEN panic(push(L1, <<ch>>))
                ELSE IF j + 1 > n THEN panic(push(L1, <<ch, s[j]>>))
                ELSE add_text_from(push(L1, <<ch, s[j], s[j + 1]>>), s, j + 2)
            ELSE IF ch = RESET_PREFIX \/ ch = BOLD_PREFIX THEN
                add_text_from(push(L1, <<ch>>), s, j)
            ELSE IF is_kept(ch) THEN
                add_text_from(push_visible(L1, ch), s, j)
            ELSE add_text_from(L1, s, j)
    IN  IF i > n THEN [line |-> L, outcome |-> "ok"]
        ELSE IF s[i] = COLOR_PREFIX THEN
            IF i + 1 > n THEN panic(push(L, <<s[i]>>))
            ELSE IF i + 2 > n THEN panic(push(L, <<s[i], s[i + 1]>>))
            ELSE LET L1 == push(L, <<s[i], s[i + 1], s[i + 2]>>) IN
                IF i + 3 > n THEN [line |-> L1, outcome |-> "ok"]
                ELSE IF s[i + 3] = COMMA THEN
                    IF i + 4 > n THEN panic(push(L1, <<COMMA>>))
                    ELSE IF i + 5 > n THEN panic(push(L1, <<COMMA, s[i + 4]>>))
                    ELSE add_text_from(push(L1, <<COMMA, s[i + 4], s[i + 5]>>), s, i + 6)
                ELSE rest(L1, s[i + 3], i + 4)
        ELSE rest(L, s[i], i + 1)

add_text(L, s) == add_text_from(L, s, 1)

\* assert!(char != style::COLOR_PREFIX), then the bookkeeping
add_char(L, ch) ==
    IF ch = COLOR_PREFIX THEN [line |-> L, outcome |-> "panic"]
    ELSE [line |-> push_visible(L, ch), outcome |-> "ok"]

----------------------------------------------------------------------------
(* Line::rendered_height.                                                  *)

\* *self.splits.get(idx).unwrap_or(&self.len_chars), idx counted from 0
split_or_len(L, idx) ==
    IF idx < Len(L.splits) THEN L.splits[idx + 1] ELSE L.len_chars

\* height_slots_in_line with the operands of the subtraction swapped
height_slots_in_line_swapped(width, col) == (col + 1) - width

\* let slots_in_line : i32 = width - (col + 1)
height_slots_in_line(width, col) == width - (col + 1)

\* height_chars_until_next_split with the separator counted among the
\* characters to render
height_chars_with_separator(next_split, char_idx) == next_split - char_idx

\* next split (or len_chars) - 1 - char_idx
height_chars_until_next_split(next_split, char_idx) == next_split - 1 - char_idx

\* height_wraps with a wrap also when the next word fits exactly
height_wraps_inclusive(chars_until_next_split, slots_in_line) ==
    chars_until_next_split >= slots_in_line

\* if (chars_until_next_split as i32) > slots_in_line
height_wraps(chars_until_next_split, slots_in_line) ==
    chars_until_next_split > slots_in_line

\* line_start = char_idx + 1
height_line_start(char_idx) == char_idx + 1

\* The for loop of rendered_height from split_idx (counted from 0) on, with
\* the loop's state h = [lines, line_start, wraps]; wraps collects the split
\* offsets at which a wrap is counted.
RECURSIVE height_from(_, _, _, _)
height_from(L, width, split_idx, h) ==
    IF split_idx >= Len(L.splits) THEN h
    ELSE LET char_idx == L.splits[split_idx + 1]
             col == char_idx - h.line_start
             slots_in_line == height_slots_in_line(width, col)
             chars_until_next_split ==
                 height_chars_until_next_split(split_or_len(L, split_idx + 1), char_idx)
         IN  IF height_wraps(chars_until_next_split, slots_in_line)
             THEN height_from(L, width, split_idx + 1,
                      [lines |-> h.lines + 1,
                       line_start |-> height_line_start(char_idx),
                       wraps |-> h.wraps \cup {char_idx}])
             ELSE height_from(L, width, split_idx + 1, h)

height_scan(L, width) ==
    height_from(L, width, 0, [lines |-> 1, line_start |-> 0, wraps |-> {}])

rendered_height(L, width) == height_scan(L, width).lines

----------------------------------------------------------------------------
(* Line::draw_from.                                                        *)

\* fg |= irc_color_to_termbox(fg_1 * 10 + fg_2)
color_fg(fg, code) == BitOr(fg, irc_color_to_termbox(code))

\* bg = irc_color_to_termbox(bg_1 * 10 + bg_2)
color_bg(code) == irc_color_to_termbox(code)

\* iter.next().unwrap() as u16
raw_color(ch) == ch % U16

\* let slots_in_line = width - (col - pos_x)
draw_slots_in_line(width, col, pos_x) == width - (col - pos_x)

\* let chars_until_next_split : i32 = *next_split - char_idx
draw_chars_until_next_split(next_split, char_idx) == next_split - char_idx

\* assert!(*next_split > char_idx)
draw_assertion(next_split, char_idx) == next_split > char_idx

\* draw_fits with the whitespace itself not counted
draw_fits_without_separator(chars_until_next_split, slots_in_line) ==
    chars_until_next_split - 1 <= slots_in_line

\* if (chars_until_next_split as i32) <= slots_in_line
draw_fits(chars_until_next_split, slots_in_line) ==
    chars_until_next_split <= slots_in_line

\* draw_in_row off by one: the column pos_x + width is written too
draw_in_row_inclusive(col, pos_x, width) == col - pos_x <= width

\* if col - pos_x < width
draw_in_row(col, pos_x, width) == col - pos_x < width

\* if line >= first_line { tb_change_cell(col, pos_y + line, char, fg, bg) }
\* the cells written are kept in the order of the writes
change_cell(d, a, ch) ==
    IF d.line >= a.first_line
    THEN [d EXCEPT !.cells = Append(@, <<d.col, a.pos_y + d.line, ch, d.fg, d.bg>>)]
    ELSE d

\* The while loop of draw_from with the iterator at str[i] (1-based).
\*   a = [pos_x, pos_y, first_line, width, checked]: the arguments, and whether
\*       the build checks integer overflow (a debug build panics on it, a
\*       release build wraps);
\*   d = [col, line, next_split_idx, char_idx, fg, bg, cells, wraps, outcome]:
\*       the locals, the cells written so far and the character offsets of the
\*       whitespace at which the row was advanced.
\* outcome is "ok" when the loop ends, else the panic that ends it: "unwrap"
\* (iter.next().unwrap() at the end of the buffer), "assert" (line 200) or
\* "overflow" (to_dec or the u16 arithmetic, in a checked build).
RECURSIVE draw_loop(_, _, _, _)
draw_loop(L, a, d, i) ==
    LET s == L.str
        n == Len(L.str)
        panic(d1, why) == [d1 EXCEPT !.outcome = why]
        \* lines 177-232, for the character ch with the iterator at s[j]
        rest(d1, ch, j) ==
            IF ch = TERMBOX_COLOR_PREFIX THEN
                IF j + 1 > n THEN panic(d1, "unwrap")
                ELSE draw_loop(L, a,
                         [d1 EXCEPT !.fg = raw_color(s[j]), !.bg = raw_color(s[j + 1])],
                         j + 2)
            ELSE IF ch = BOLD_PREFIX THEN
                draw_loop(L, a, [d1 EXCEPT !.fg = BitOr(@, TB_BOLD)], j)
            ELSE IF ch = RESET_PREFIX THEN
                draw_loop(L, a, [d1 EXCEPT !.fg = 0, !.bg = 0], j)
            ELSE IF is_whitespace(ch) THEN
                LET d2 == [d1 EXCEPT !.next_split_idx = @ + 1]
                    next_split == split_or_len(L, d2.next_split_idx)
                    slots_in_line == draw_slots_in_line(a.width, d2.col, a.pos_x)
                    chars_until_next_split ==
                        draw_chars_until_next_split(next_split, d2.char_idx)
                IN  IF ~draw_assertion(next_split, d2.char_idx) THEN panic(d2, "assert")
                    ELSE IF draw_fits(chars_until_next_split, slots_in_line) THEN
                        draw_loop(L, a,
                            [change_cell(d2, a, ch) EXCEPT
                                !.col = @ + 1, !.char_idx = @ + 1],
                            j)
                    ELSE
                        draw_loop(L, a,
                            [d2 EXCEPT !.line = @ + 1, !.col = a.pos_x,
                                       !.wraps = @ \cup {d2.char_idx},
                                       !.char_idx = @ + 1],
                            j)
            ELSE IF draw_in_row(d1.col, a.pos_x, a.width) THEN
                draw_loop(L, a,
                    [change_cell(d1, a, ch) EXCEPT !.col = @ + 1, !.char_idx = @ + 1],
                    j)
            ELSE draw_loop(L, a, [d1 EXCEPT !.char_idx = @ + 1], j)
    IN  IF i > n THEN d
        ELSE IF s[i] = COLOR_PREFIX THEN
            IF read_code(s, i + 1, a.checked) # "ok" THEN
                panic(d, read_code(s, i + 1, a.checked))
            ELSE LET d1 == [d EXCEPT !.fg = color_fg(@, code_of(s[i + 1], s[i + 2]))] IN
                IF i + 3 > n THEN d1
                ELSE IF s[i + 3] = COMMA THEN
                    IF read_code(s, i + 4, a.checked) # "ok" THEN
                        panic(d1, read_code(s, i + 4, a.checked))
                    ELSE draw_loop(L, a,
                             [d1 EXCEPT !.bg = color_bg(code_of(s[i + 4], s[i + 5]))],
                             i + 6)
                ELSE rest([d1 EXCEPT !.bg = 0], s[i + 3], i + 4)
        ELSE rest(d, s[i], i + 1)

draw_from(L, pos_x, pos_y, first_line, width, checked) ==
    draw_loop(L,
        [pos_x |-> pos_x, pos_y |-> pos_y, first_line |-> first_line,
         width |-> width, checked |-> checked],
        [col |-> pos_x, line |-> 0, next_split_idx |-> 0, char_idx |-> 0,
         fg |-> 0, bg |-> 0, cells |-> <<>>, wraps |-> {}, outcome |-> "ok"],
        1)

----------------------------------------------------------------------------
(* The state machine: one Line and the calls made on it.                   *)
(*                                                                         *)
(*   str, len_chars, splits  the fields of the Line                        *)
(*   ret       the call that has just ended and what it returned or wrote; *)
(*             Return hands control back to the caller, who makes the next *)
(*             call; a call that panicked ends the program                 *)
(*   log       the add_text / add_char calls made so far with their        *)
(*             arguments, kept in the scenarios with history               *)
(*   scenario  what the caller does: the characters it sends, the bound on *)
(*             their number, the widths it asks for, the builds it is      *)
(*             compiled as (checked: integer overflow panics) and whether  *)
(*             the history of the calls is kept; fixed by Init             *)
(***************************************************************************)

Line == [str |-> str, len_chars |-> len_chars, splits |-> splits]

\* every kind of character: the four markers, a discarded control character
\* (1), a space, a comma and the letter 'a'
AllChars ==
    {TERMBOX_COLOR_PREFIX, 1, BOLD_PREFIX, COLOR_PREFIX, RESET_PREFIX, 32, COMMA, 97}
\* directive-free text: space, 'a', 'b'
PlainChars == {32, 97, 98}
\* colour directives, the digit '1' and spaces
DirectiveChars == {COLOR_PREFIX, 49, 32}
\* colour directives with the digits '0' and '1'
ColorChars == {COLOR_PREFIX, DIGIT0, 49}
\* colour directives with an optional background
StreamChars == {COLOR_PREFIX, COMMA, 49}

General ==
    [chars |-> AllChars, max |-> MaxInput, widths |-> 0..(MaxInput + 1),
     checked |-> BOOLEAN, history |-> FALSE]
Plain ==
    [chars |-> PlainChars, max |-> MaxPlain, widths |-> 0..(MaxPlain + 1),
     checked |-> {TRUE}, history |-> FALSE]
Directive ==
    [chars |-> DirectiveChars, max |-> MaxDirective, widths |-> 1..2,
     checked |-> BOOLEAN, history |-> FALSE]
Color ==
    [chars |-> ColorChars, max |-> MaxColor, widths |-> 1..2,
     checked |-> {TRUE}, history |-> FALSE]
Stream ==
    [chars |-> StreamChars, max |-> MaxStream, widths |-> 1..2,
     checked |-> {TRUE}, history |-> TRUE]

\* the non-empty texts of at most k characters of the scenario
Texts(k) == UNION {[1..m -> scenario.chars] : m \in 1..k}

\* (pos_x, pos_y, first_line)
Views == {<<0, 0, 0>>} \cup {<<2, 1, f>> : f \in 0..MaxFirstLine}

RECURSIVE InputLen(_)
InputLen(l) == IF l = <<>> THEN 0 ELSE Len(Head(l).arg) + InputLen(Tail(l))

\* how many more characters the caller may hand over
Room ==
    IF scenario.history
    THEN IF Len(log) < MaxCalls THEN scenario.max - InputLen(log) ELSE 0
    ELSE scenario.max - Len(str)

\* the caller has control
Idle == ret.op \in {"new", "idle"}

InitWith(sc) ==
    /\ str = new.str
    /\ len_chars = new.len_chars
    /\ splits = new.splits
    /\ log = <<>>
    /\ ret = [op |-> "new", outcome |-> "ok"]
    /\ scenario \in sc

Init == InitWith({General, Plain, Directive})
InitColor == InitWith({Color})
InitStream == InitWith({Stream})

Store(r, op, arg) ==
    /\ str' = r.line.str
    /\ len_chars' = r.line.len_chars
    /\ splits' = r.line.splits
    /\ ret' = [op |-> op, outcome |-> r.outcome]
    /\ log' = IF scenario.history THEN Append(log, [op |-> op, arg |-> arg]) ELSE log
    /\ UNCHANGED scenario

AddText(s) ==
    /\ Idle
    /\ Store(add_text(Line, s), "add_text", s)

AddChar(ch) ==
    /\ Idle
    /\ Room >= 1
    /\ Store(add_char(Line, ch), "add_char", <<ch>>)

RenderedHeight(width) ==
    /\ Idle
    /\ LET h == height_scan(Line, width) IN
        ret' = [op |-> "rendered_height", outcome |-> "ok", width |-> width,
                lines |-> h.lines, wraps |-> h.wraps]
    /\ UNCHANGED <<str, len_chars, splits, log, scenario>>

DrawFrom(pos_x, pos_y, first_line, width, checked) ==
    /\ Idle
    /\ LET d == draw_from(Line, pos_x, pos_y, first_line, width, checked) IN
        ret' = [op |-> "draw_from", outcome |-> d.outcome,
                pos_x |-> pos_x, pos_y |-> pos_y, first_line |-> first_line,
                width |-> width, cells |-> d.cells, line |-> d.line,
                wraps |-> d.wraps]
    /\ UNCHANGED <<str, len_chars, splits, log, scenario>>

\* the call returns normally
Return ==
    /\ ~Idle
    /\ ret.outcome = "ok"
    /\ ret' = [op |-> "idle", outcome |-> "ok"]
    /\ UNCHANGED <<str, len_chars, splits, log, scenario>>

Next ==
    \/ \E s \in Texts(Room) : AddText(s)
    \/ \E ch \in scenario.chars : AddChar(ch)
    \/ \E width \in scenario.widths : RenderedHeight(width)
    \/ \E v \in Views, width \in scenario.widths, checked \in scenario.checked :
          DrawFrom(v[1], v[2], v[3], width, checked)
    \/ Return

Spec == Init /\ [][Next]_vars
SpecColor == InitColor /\ [][Next]_vars
SpecStream == InitStream /\ [][Next]_vars

----------------------------------------------------------------------------
(* What the properties speak of.                                           *)

Markers == {TERMBOX_COLOR_PREFIX, BOLD_PREFIX, COLOR_PREFIX, RESET_PREFIX}

\* text without directives that add_text stores as it is
IsPlainText(s) == \A i \in 1..Len(s) : is_kept(s[i]) /\ s[i] \notin Markers

IsNotSpace(ch) == ~is_whitespace(ch)
NonWhitespace(s) == SelectSeq(s, IsNotSpace)

\* the length of the longest run of non-whitespace characters of s
RECURSIVE LongestRun(_, _, _)
LongestRun(s, i, run) ==
    IF i > Len(s) THEN run
    ELSE IF is_whitespace(s[i])
         THEN LET m == LongestRun(s, i + 1, 0) IN IF run > m THEN run ELSE m
         ELSE LongestRun(s, i + 1, run + 1)
MaxRun(s) == LongestRun(s, 1, 0)

DrawEnded == ret.op = "draw_from"
HeightEnded == ret.op = "rendered_height"

\* the characters of the cells, in the order of the writes
CellChars == [k \in 1..Len(ret.cells) |-> ret.cells[k][3]]

\* the writes go row by row and, within a row, from left to right
InReadingOrder ==
    \A k \in 1..(Len(ret.cells) - 1) :
        \/ ret.cells[k][2] < ret.cells[k + 1][2]
        \/ ret.cells[k][2] = ret.cells[k + 1][2] /\ ret.cells[k][1] < ret.cells[k + 1][1]

----------------------------------------------------------------------------
\* C1: every cell draw_from writes has its column in [pos_x, pos_x + width)
\* and its row at or below pos_y + first_line, for every Line the calls
\* build, also when a run of non-whitespace is longer than width and when
\* the character written is whitespace.
C1_WritesInsideRegion ==
    DrawEnded =>
        \A k \in 1..Len(ret.cells) :
            /\ ret.pos_x <= ret.cells[k][1]
            /\ ret.cells[k][1] < ret.pos_x + ret.width
            /\ ret.cells[k][2] >= ret.pos_y + ret.first_line

\* a run longer than width was clipped and, with first_line >= 1, a
\* whitespace and a cell in the last column were written
C1_Witness ==
    /\ DrawEnded
    /\ ret.first_line >= 1
    /\ ret.width >= 1
    /\ MaxRun(str) > ret.width
    /\ \E k \in 1..Len(ret.cells) : ret.cells[k][1] = ret.pos_x + ret.width - 1
    /\ \E k \in 1..Len(ret.cells) : is_whitespace(ret.cells[k][3])

----------------------------------------------------------------------------
\* C2: for directive-free text and width >= 1, draw_from (first_line = 0)
\* moves to a new row at exactly the whitespace offsets at which
\* rendered_height counts a wrap, and the last row it reaches is
\* rendered_height(width) - 1.
C2_SameWraps ==
    (DrawEnded /\ IsPlainText(str) /\ ret.first_line = 0 /\ ret.width >= 1) =>
        /\ ret.outcome = "ok"
        /\ ret.wraps = height_scan(Line, ret.width).wraps
        /\ ret.line = rendered_height(Line, ret.width) - 1

\* a text with a word longer than width and two whitespace in a row, wrapped
C2_Witness ==
    /\ DrawEnded /\ IsPlainText(str) /\ ret.first_line = 0 /\ ret.width >= 1
    /\ MaxRun(str) > ret.width
    /\ \E i \in 1..(Len(str) - 1) : is_whitespace(str[i]) /\ is_whitespace(str[i + 1])
    /\ Cardinality(ret.wraps) >= 2

----------------------------------------------------------------------------
\* non-empty words separated by single spaces, none leading or trailing
IsSingleSpaced(s) ==
    /\ s # <<>>
    /\ \A i \in 1..Len(s) : s[i] = 32 \/ (IsPlainText(<<s[i]>>) /\ ~is_whitespace(s[i]))
    /\ s[1] # 32
    /\ s[Len(s)] # 32
    /\ \A i \in 1..(Len(s) - 1) : ~(s[i] = 32 /\ s[i + 1] = 32)

\* the lengths of the words of a single-spaced text
RECURSIVE WordLengths(_, _, _)
WordLengths(s, i, run) ==
    IF i > Len(s) THEN <<run>>
    ELSE IF s[i] = 32 THEN <<run>> \o WordLengths(s, i + 1, 0)
    ELSE WordLengths(s, i + 1, run + 1)

\* The reference greedy word wrap: the rows used for the words from the k-th
\* on, when the current row holds row_len columns.  A word is placed on the
\* current row iff row_len + 1 + its length <= width, else it starts a row.
RECURSIVE GreedyRows(_, _, _, _)
GreedyRows(words, k, row_len, width) ==
    IF k > Len(words) THEN 1
    ELSE IF row_len + 1 + words[k] <= width
         THEN GreedyRows(words, k + 1, row_len + 1 + words[k], width)
         ELSE 1 + GreedyRows(words, k + 1, words[k], width)

\* the first word of the text is always placed
ReferenceHeight(s, width) ==
    LET words == WordLengths(s, 1, 0) IN GreedyRows(words, 2, words[1], width)

\* C3: for words separated by single spaces and every width >= 0,
\* rendered_height(width) is the row count of the reference greedy word wrap.
C3_GreedyHeight ==
    (HeightEnded /\ IsSingleSpaced(str) /\ ret.width >= 0) =>
        ret.lines = ReferenceHeight(str, ret.width)

\* three words or more on fewer rows than words, more than one row
C3_Witness ==
    /\ HeightEnded /\ IsSingleSpaced(str)
    /\ Len(splits) >= 2
    /\ ret.lines >= 2
    /\ ret.lines <= Len(splits)

----------------------------------------------------------------------------
\* C4: for a fixed Line and widths 1 <= w1 <= w2,
\* rendered_height(w2) <= rendered_height(w1).
C4_HeightNonIncreasing ==
    (HeightEnded /\ ret.width >= 1) =>
        \A w2 \in scenario.widths :
            w2 >= ret.width => rendered_height(Line, w2) <= ret.lines

\* a Line whose height is 3 or more at w1 and strictly less at some w2 > w1
C4_Witness ==
    /\ HeightEnded /\ ret.width >= 1
    /\ ret.lines >= 3
    /\ \E w2 \in scenario.widths :
          w2 > ret.width /\ rendered_height(Line, w2) < ret.lines

----------------------------------------------------------------------------
\* C7 as stated: for directive-free text, width >= 1 and first_line = 0 the
\* cells written, read row by row and left to right, hold every
\* non-whitespace character of the text, in order, none lost.
C7_RoundTrip ==
    (DrawEnded /\ IsPlainText(str) /\ ret.first_line = 0 /\ ret.width >= 1) =>
        /\ InReadingOrder
        /\ NonWhitespace(CellChars) = NonWhitespace(str)

\* C7 as amended: the same, for the texts none of whose runs of
\* non-whitespace is longer than width; a longer run is clipped at width.
C7_RoundTripUnclipped ==
    (DrawEnded /\ IsPlainText(str) /\ ret.first_line = 0 /\ ret.width >= 1
       /\ MaxRun(str) <= ret.width) =>
        /\ InReadingOrder
        /\ NonWhitespace(CellChars) = NonWhitespace(str)

\* a text of several words, the longest exactly as long as width, drawn on
\* more than one row
C7_Witness ==
    /\ DrawEnded /\ IsPlainText(str) /\ ret.first_line = 0 /\ ret.width >= 2
    /\ MaxRun(str) = ret.width
    /\ ret.line >= 1
    /\ Len(splits) >= 2
    /\ ~is_whitespace(str[1])
    /\ ~is_whitespace(str[Len(str)])
    /\ \E k \in 1..Len(ret.cells) : is_whitespace(ret.cells[k][3])

----------------------------------------------------------------------------
\* Whether the text s, read by add_text from s[i] on, ends inside a
\* directive: after a colour marker and fewer than two characters, after the
\* comma of a colour directive and fewer than two characters, or after a
\* native-palette marker and fewer than two characters.
RECURSIVE EndsInsideDirective(_, _)
EndsInsideDirective(s, i) ==
    LET n == Len(s)
        rest(ch, j) ==
            IF ch = TERMBOX_COLOR_PREFIX
            THEN IF j + 1 > n THEN TRUE ELSE EndsInsideDirective(s, j + 2)
            ELSE EndsInsideDirective(s, j)
    IN  IF i > n THEN FALSE
        ELSE IF s[i] = COLOR_PREFIX THEN
            IF i + 2 > n THEN TRUE
            ELSE IF i + 3 > n THEN FALSE
            ELSE IF s[i + 3] = COMMA
                 THEN IF i + 5 > n THEN TRUE ELSE EndsInsideDirective(s, i + 6)
                 ELSE rest(s[i + 3], i + 4)
        ELSE rest(s[i], i + 1)

\* C5: add_text returns normally on an input that ends inside a directive.
C5_TruncatedInputReturns ==
    (ret.op = "add_text" /\ log # <<>> /\ EndsInsideDirective(log[Len(log)].arg, 1)) =>
        ret.outcome = "ok"

----------------------------------------------------------------------------
\* C6: on a Line built by calls that each returned normally, for width >= 1,
\* draw_from runs to completion: no unwrap of a directive operand fails and
\* the assertion next_split > char_idx holds at every whitespace.
C6_DrawCompletes ==
    (DrawEnded /\ ret.width >= 1) => ret.outcome \notin {"unwrap", "assert"}

----------------------------------------------------------------------------
\* C8: after two successive colour directives with foreground codes c1 then
\* c2, the characters that follow are written with
\* fg = irc_color_to_termbox(c2).  The buffers spoken of are
\* marker d d x marker d d y, with x and y visible characters.
C8_ColorReplaces ==
    (/\ DrawEnded /\ ret.outcome = "ok" /\ ret.first_line = 0 /\ ret.width >= 2
     /\ Len(str) = 8
     /\ str[1] = COLOR_PREFIX /\ str[5] = COLOR_PREFIX
     /\ \A i \in {2, 3, 4, 6, 7, 8} : str[i] \in {DIGIT0, 49}) =>
        /\ Len(ret.cells) = 2
        /\ ret.cells[1][4] = irc_color_to_termbox(code_of(str[2], str[3]))
        /\ ret.cells[2][4] = irc_color_to_termbox(code_of(str[6], str[7]))

----------------------------------------------------------------------------
\* The visible characters of the buffer s from s[i] on, by the directive
\* grammar of draw_from: neither a marker nor an operand of a directive.
RECURSIVE VisibleCount(_, _)
VisibleCount(s, i) ==
    LET n == Len(s)
        rest(ch, j) ==
            IF ch = TERMBOX_COLOR_PREFIX THEN VisibleCount(s, j + 2)
            ELSE IF ch = BOLD_PREFIX \/ ch = RESET_PREFIX THEN VisibleCount(s, j)
            ELSE 1 + VisibleCount(s, j)
    IN  IF i > n THEN 0
        ELSE IF s[i] = COLOR_PREFIX THEN
            IF i + 3 > n THEN 0
            ELSE IF s[i + 3] = COMMA THEN VisibleCount(s, i + 6)
            ELSE rest(s[i + 3], i + 4)
        ELSE rest(s[i], i + 1)

\* C9: after calls that returned normally, len_chars is the number of
\* visible characters of the buffer.
C9_LenCharsIsVisibleCount ==
    ret.outcome = "ok" => len_chars = VisibleCount(str, 1)

----------------------------------------------------------------------------
\* C10: add_text(a) then add_text(b) on an empty Line leaves the Line that
\* add_text(a ++ b) leaves, whenever the three calls return normally.
C10_ChunkingIndependent ==
    (/\ Len(log) = 2
     /\ log[1].op = "add_text" /\ log[2].op = "add_text"
     /\ ret.op = "add_text" /\ ret.outcome = "ok"
     /\ add_text(new, log[2].arg).outcome = "ok"
     /\ add_text(new, log[1].arg \o log[2].arg).outcome = "ok") =>
        Line = add_text(new, log[1].arg \o log[2].arg).line

====
